---- MODULE Spec2Model ----
(***************************************************************************)
(* Model of get_patch_context, the diff-context extractor of the review    *)
(* bot.  The repository holds two different implementations:               *)
(*   "utils"      .github/scripts/utils.py:3-17 (jibinbot_review.py:93-107 *)
(*                is a verbatim copy of it)                                *)
(*   "formatters" .github/scripts/formatters.py:3-53                       *)
(* One call is modelled as a scan of the patch, one loop iteration per     *)
(* step.  A patch is a sequence of lines; a line is a record               *)
(*   [k |-> kind, c |-> newStart]                                          *)
(* whose kind is one of                                                    *)
(*   "full"     '@@ -a,b +c,d @@'        "ctx"    ' text'                  *)
(*   "noOld"    '@@ -a +c,d @@'          "add"    '+text'                  *)
(*   "noNew"    '@@ -a,b +c @@'          "del"    '-text'                  *)
(*   "noBoth"   '@@ -a +c @@'            "other"  '\ No newline ...'       *)
(*   "garbage"  '@@ garbage @@'          "empty"  ''                       *)
(* and c is the number written after '+' in a header (0 elsewhere).        *)
(* The list the function builds is modelled as the sequence of the patch   *)
(* positions it appended; '\n'.join of it is the empty string exactly when *)
(* the sequence is empty, since no empty line is ever appended.            *)
(***************************************************************************)
EXTENDS Integers, Sequences, FiniteSets, TLC

VARIABLES impl, patch, line_no, ctx, i, file_line, hunk, pc

\* what a caller that calls the function several times remembers: the number
\* of calls that have ended and the arguments and outcome of the first one
VARIABLES calls, first

\* resolvePosition: the count of body lines passed and the value returned
\* (None: "not found"); its newFileLine cursor is kept in file_line
VARIABLES position, found

\* ai_services: the module global _OPENAI_API_KEY (None until it is set) and
\* the call of one of its four request functions that is under way
VARIABLES openai_api_key, ai

aiVars == <<openai_api_key, ai>>

\* the state that neither a scan of get_patch_context nor its caller touches
restVars == <<position, found, aiVars>>

\* one run of a review script (main.py, jibinbot_review.py), or one call of
\* issue_collector.collect_issues: the script, its position, its environment
\* (credentials, whether the OpenAI calls succeed, whether a patch makes
\* get_patch_context raise), the changed files of the pull request, the linter
\* report on disk, the number of the report entry being read, the issues
\* collected, and what GitHub has received
VARIABLES script, rpc, env, changed_files, report, entry_no, issues, comments, statuses

\* the files GitHub lists for the pull request, and what the run has done so
\* far: GitHub reads, attempts to post a comment and to set a status, those
\* of them that failed, OpenAI requests, whether the reports were loaded,
\* calls of get_patch_context and of ai_suggest_fix, and the issues of the
\* table rows written, in the order of the rows
VARIABLES pr_files, did

sideVars == <<pr_files, did>>

runVars == <<script, rpc, env, changed_files, report, entry_no, issues, comments, statuses,
             sideVars>>

\* the state outside one call of get_patch_context
otherVars == <<calls, first, restVars, runVars>>

\* the state of one scan of a patch
scanVars == <<impl, patch, line_no, ctx, i, file_line, hunk, pc>>

vars == <<impl, patch, line_no, ctx, i, file_line, hunk, pc, otherVars>>

\* ---- bounds of the model ------------------------------------------------
\* longest patch whose headers are '@@ -a,b +c,d @@' or '@@ garbage @@'
MaxLen == 4
\* longest patch whose headers may also omit a count
MaxShortLen == 2
MaxStart == 2
MaxLineNo == 3
MaxCtx == 1

\* ---- lines --------------------------------------------------------------
WellFormedForms == {"full", "noOld", "noNew", "noBoth"}
HeaderKinds == WellFormedForms \cup {"garbage"}
BodyKinds == {"ctx", "add", "del", "other", "empty"}

HeaderLines == [k : WellFormedForms, c : 1..MaxStart] \cup {[k |-> "garbage", c |-> 0]}
BodyLines == [k : BodyKinds, c : {0}]
Lines == HeaderLines \cup BodyLines

\* the lines other than the headers with a count omitted
PlainLines == {l \in Lines : l.k \notin {"noOld", "noNew", "noBoth"}}

\* line.startswith('@@ ')
IsHeader(line) == line.k \in HeaderKinds

\* the value None of file_line, and an integer value n of it
None == << >>
Some(n) == <<n>>

Abs(n) == IF n < 0 THEN -n ELSE n

Window(n, target, width) == target - width <= n /\ n <= target + width

\* ---- utils.py (and the copy in jibinbot_review.py) ----------------------
\* int(line.split()[2].split(',')[0][1:]) succeeds: the third token is
\* '+c' or '+c,d'.  For '@@ garbage @@' the third token is '@@' and int('@')
\* raises ValueError.
UtilsParses(line) == line.k \in WellFormedForms

UtilsStartNoOffset(line) == line.c

\* start = int(...) - 1
UtilsStart(line) == line.c - 1

UtilsHunkPrepends(h, idx) == <<idx>> \o h

\* hunk = [line]
UtilsHunkAtHeader(h, idx) == <<idx>>

\* if prefix != '-': file_line += 1
UtilsCursor(line, fl) == IF line.k # "del" THEN fl + 1 ELSE fl

\* if abs(file_line - line_no) <= ctx: hunk.append(line)
UtilsKeeps(fl, target, width) == Abs(fl - target) <= width

\* if file_line > line_no + ctx: break
UtilsBreaks(line, fl, target, width) == fl > target + width

UtilsHeader ==
    /\ pc = "loop" /\ impl = "utils"
    /\ i <= Len(patch) /\ IsHeader(patch[i])
    /\ IF UtilsParses(patch[i])
       THEN /\ file_line' = Some(UtilsStart(patch[i]))
            /\ hunk' = UtilsHunkAtHeader(hunk, i)
            /\ i' = i + 1
            /\ pc' = pc
       ELSE /\ pc' = "raised"
            /\ UNCHANGED <<file_line, hunk, i>>
    /\ UNCHANGED <<impl, patch, line_no, ctx>>
    /\ UNCHANGED otherVars

UtilsBody ==
    /\ pc = "loop" /\ impl = "utils"
    /\ i <= Len(patch) /\ ~IsHeader(patch[i])
    /\ file_line # None
    /\ IF patch[i].k = "empty"
       THEN \* prefix = line[0] raises IndexError
            /\ pc' = "raised"
            /\ UNCHANGED <<file_line, hunk, i>>
       ELSE IF patch[i].k \in {"ctx", "add", "del"}
       THEN LET fl == UtilsCursor(patch[i], file_line[1]) IN
            /\ file_line' = Some(fl)
            /\ hunk' = IF UtilsKeeps(fl, line_no, ctx) THEN Append(hunk, i) ELSE hunk
            /\ IF UtilsBreaks(patch[i], fl, line_no, ctx)
               THEN pc' = "returned" /\ i' = i
               ELSE pc' = pc /\ i' = i + 1
       ELSE /\ i' = i + 1
            /\ UNCHANGED <<file_line, hunk, pc>>
    /\ UNCHANGED <<impl, patch, line_no, ctx>>
    /\ UNCHANGED otherVars

\* a line before the first header: neither branch of the if/elif is taken
UtilsSkip ==
    /\ pc = "loop" /\ impl = "utils"
    /\ i <= Len(patch) /\ ~IsHeader(patch[i])
    /\ file_line = None
    /\ i' = i + 1
    /\ UNCHANGED <<impl, patch, line_no, ctx, file_line, hunk, pc>>
    /\ UNCHANGED otherVars

\* ---- formatters.py ------------------------------------------------------
\* re.match(r'@@ -\d+,\d+ \+(\d+),\d+ @@', line) needs both counts
FormattersMatches(line) == line.k = "full"

\* file_line = int(match.group(1))
FormattersStart(line) == line.c

FormattersHunkDropsHeader(h, idx) == h

\* final_context_lines.append(line)
FormattersHunkAtHeader(h, idx) == Append(h, idx)

\* the test of line 39-40, on the cursor before its increment
FormattersKeeps(line, fl, target, width) ==
    \/ line.k \in {"ctx", "add"} /\ Abs(fl - target) <= width
    \/ line.k = "del" /\ fl >= target - width /\ fl <= target + width

\* if prefix in (' ', '+'): file_line += 1
FormattersCursor(line, fl) == IF line.k \in {"ctx", "add"} THEN fl + 1 ELSE fl

\* if file_line > line_no + ctx and prefix not in ('-', '+'): break
FormattersBreaks(line, fl, target, width) ==
    fl > target + width /\ line.k \notin {"del", "add"}

FormattersHeader ==
    /\ pc = "loop" /\ impl = "formatters"
    /\ i <= Len(patch) /\ IsHeader(patch[i])
    /\ hunk' = FormattersHunkAtHeader(hunk, i)
    /\ file_line' = IF FormattersMatches(patch[i])
                    THEN Some(FormattersStart(patch[i]))
                    ELSE None
    /\ i' = i + 1
    /\ UNCHANGED <<impl, patch, line_no, ctx, pc>>
    /\ UNCHANGED otherVars

FormattersBody ==
    /\ pc = "loop" /\ impl = "formatters"
    /\ i <= Len(patch) /\ ~IsHeader(patch[i])
    /\ file_line # None
    /\ IF patch[i].k = "empty"
       THEN \* prefix = line[0] raises IndexError
            /\ pc' = "raised"
            /\ UNCHANGED <<file_line, hunk, i>>
       ELSE LET fl == FormattersCursor(patch[i], file_line[1]) IN
            /\ hunk' = IF FormattersKeeps(patch[i], file_line[1], line_no, ctx)
                       THEN Append(hunk, i) ELSE hunk
            /\ file_line' = Some(fl)
            /\ IF FormattersBreaks(patch[i], fl, line_no, ctx)
               THEN pc' = "returned" /\ i' = i
               ELSE pc' = pc /\ i' = i + 1
    /\ UNCHANGED <<impl, patch, line_no, ctx>>
    /\ UNCHANGED otherVars

FormattersSkip ==
    /\ pc = "loop" /\ impl = "formatters"
    /\ i <= Len(patch) /\ ~IsHeader(patch[i])
    /\ file_line = None
    /\ i' = i + 1
    /\ UNCHANGED <<impl, patch, line_no, ctx, file_line, hunk, pc>>
    /\ UNCHANGED otherVars

\* the for loop is exhausted: return '\n'.join(...)
Return ==
    /\ pc = "loop"
    /\ i > Len(patch)
    /\ pc' = "returned"
    /\ UNCHANGED <<impl, patch, line_no, ctx, i, file_line, hunk>>
    /\ UNCHANGED otherVars

\* ---- inputs and specification -------------------------------------------
Impls == {"utils", "formatters"}

SeqsUpTo(S, n) == UNION {[1..m -> S] : m \in 0..n}

Patches == SeqsUpTo(PlainLines, MaxLen) \cup SeqsUpTo(Lines, MaxShortLen)

\* line_no is not validated by either implementation: 0 is passed on as is
LineNos == 0..MaxLineNo

InitialFileLineZero == Some(0)

\* file_line = None, before the loop
InitialFileLine == None

\* os.getenv of a variable that is not set
NoEnv == [OPENAI_API_KEY |-> None, GITHUB_TOKEN |-> None,
          openai_ok |-> FALSE, patch_raises |-> FALSE]

NothingDone == [github_reads |-> 0, comment_attempts |-> 0, status_attempts |-> 0,
                failed_writes |-> 0, openai_requests |-> 0, reports_loaded |-> FALSE,
                patch_context_calls |-> 0, fix_calls |-> 0, rows |-> << >>]

NoSide ==
    /\ pr_files = {}
    /\ did = NothingDone

NoAiCall == [at |-> "idle", fn |-> "none", result |-> << >>, requests |-> 0, calls |-> 0]

\* ai_services as imported: no key, no call
NoAi ==
    /\ openai_api_key = None
    /\ ai = NoAiCall

\* no review script is running
NoRun ==
    /\ script = "none"
    /\ rpc = "idle"
    /\ env = NoEnv
    /\ changed_files = {}
    /\ report = [linter |-> "none", entries |-> << >>]
    /\ entry_no = 0
    /\ issues = << >>
    /\ comments = 0
    /\ statuses = << >>
    /\ NoSide
    /\ NoAi

Init ==
    /\ impl \in Impls
    /\ patch \in Patches
    /\ line_no \in LineNos
    /\ ctx \in 0..MaxCtx
    /\ i = 1
    /\ file_line = InitialFileLine
    /\ hunk = << >>
    /\ pc = "loop"
    /\ calls = 0
    /\ first = << >>
    /\ position = 0
    /\ found = None
    /\ NoRun

Next ==
    \/ UtilsHeader
    \/ UtilsBody
    \/ UtilsSkip
    \/ FormattersHeader
    \/ FormattersBody
    \/ FormattersSkip
    \/ Return

Spec == Init /\ [][Next]_vars

\* ---- a caller that calls the function again and again -------------------
\* calls made after the first one
MaxCalls == 2

CallPatches == SeqsUpTo(PlainLines, MaxShortLen)

StaleHunk(old) == old

\* hunk = [] (utils.py), final_context_lines = [] (formatters.py): the list
\* is created anew by every call, whatever the previous call left
FreshHunk(old) == << >>

\* The previous call has ended (it returned or raised) and the caller calls
\* again: with another target, and with the same patch, the empty patch or
\* the patch of the first call.  main.py always passes the same ctx.
Call ==
    /\ pc \in {"returned", "raised"}
    /\ calls < MaxCalls
    /\ calls' = calls + 1
    /\ first' = IF first = << >>
                THEN <<[patch |-> patch, line_no |-> line_no, pc |-> pc, hunk |-> hunk]>>
                ELSE first
    /\ patch' \in {patch, << >>} \cup {first'[1].patch}
    /\ line_no' \in LineNos
    /\ i' = 1
    /\ file_line' = InitialFileLine
    /\ hunk' = FreshHunk(hunk)
    /\ pc' = "loop"
    /\ UNCHANGED <<impl, ctx>>
    /\ UNCHANGED <<restVars, runVars>>

InitCalls ==
    /\ impl \in Impls
    /\ patch \in CallPatches
    /\ line_no \in LineNos
    /\ ctx \in 0..MaxCtx
    /\ i = 1
    /\ file_line = InitialFileLine
    /\ hunk = << >>
    /\ pc = "loop"
    /\ calls = 0
    /\ first = << >>
    /\ position = 0
    /\ found = None
    /\ NoRun

NextCalls ==
    \/ UtilsHeader
    \/ UtilsBody
    \/ UtilsSkip
    \/ FormattersHeader
    \/ FormattersBody
    \/ FormattersSkip
    \/ Return
    \/ Call

SpecCalls == InitCalls /\ [][NextCalls]_vars

\* ---- resolvePosition (specification, section 4.3) ------------------------
\* The function is not among the source files; it is modelled from the
\* algorithm the specification gives for it.
\* the header parser of section 4.1: the counts may be omitted, a non-numeric
\* start is a ParseError
PosParses(line) == line.k \in WellFormedForms

PosStartNoOffset(line) == line.c

\* newFileLine = newStart - 1, reset at each header
PosStart(line) == line.c - 1

PosMatchesAnyKind(line, nf, target) == nf = target

\* a context or addition line whose incremented newFileLine is the target
PosMatches(line, nf, target) == line.k \in {"ctx", "add"} /\ nf = target

\* a header does not increment position; a malformed one abandons its hunk
PosHeader ==
    /\ pc = "loop" /\ impl = "resolver"
    /\ i <= Len(patch) /\ IsHeader(patch[i])
    /\ file_line' = IF PosParses(patch[i]) THEN Some(PosStart(patch[i])) ELSE None
    /\ i' = i + 1
    /\ UNCHANGED <<impl, patch, line_no, ctx, hunk, pc, calls, first, position, found>>
    /\ UNCHANGED <<runVars, aiVars>>

\* a body line of a hunk: increment newFileLine first on a context or
\* addition line, return position on a match, else count the line
PosBody ==
    /\ pc = "loop" /\ impl = "resolver"
    /\ i <= Len(patch) /\ ~IsHeader(patch[i])
    /\ file_line # None
    /\ LET nf == IF patch[i].k \in {"ctx", "add"}
                 THEN file_line[1] + 1 ELSE file_line[1] IN
       /\ file_line' = Some(nf)
       /\ IF PosMatches(patch[i], nf, line_no)
          THEN /\ found' = Some(position)
               /\ pc' = "returned"
               /\ UNCHANGED <<i, position>>
          ELSE /\ position' = position + 1
               /\ i' = i + 1
               /\ UNCHANGED <<found, pc>>
    /\ UNCHANGED <<impl, patch, line_no, ctx, hunk, calls, first>>
    /\ UNCHANGED <<runVars, aiVars>>

\* a line before the first header, or of a hunk whose header is malformed
PosSkip ==
    /\ pc = "loop" /\ impl = "resolver"
    /\ i <= Len(patch) /\ ~IsHeader(patch[i])
    /\ file_line = None
    /\ i' = i + 1
    /\ UNCHANGED <<impl, patch, line_no, ctx, file_line, hunk, pc, otherVars>>

\* the patch is exhausted: "not found"
PosReturn ==
    /\ pc = "loop" /\ impl = "resolver"
    /\ i > Len(patch)
    /\ pc' = "returned"
    /\ UNCHANGED <<impl, patch, line_no, ctx, i, file_line, hunk, otherVars>>

\* DiffLine kinds of section 3: context, addition, deletion
PosLines == {l \in PlainLines : l.k \notin {"other", "empty"}}

InitPos ==
    /\ impl = "resolver"
    /\ patch \in SeqsUpTo(PosLines, MaxLen)
    /\ line_no \in LineNos
    /\ ctx = 0
    /\ i = 1
    /\ file_line = None
    /\ hunk = << >>
    /\ pc = "loop"
    /\ calls = 0
    /\ first = << >>
    /\ position = 0
    /\ found = None
    /\ NoRun

NextPos ==
    \/ PosHeader
    \/ PosBody
    \/ PosSkip
    \/ PosReturn

SpecPos == InitPos /\ [][NextPos]_vars

\* ---- the issue collectors -------------------------------------------------
\* The linter report on disk is modelled as [linter, entries]: the one report
\* file that exists (load_json gives None for a missing one), flattened to one
\* entry per reported message.  An entry is [path, line, line_number]:
\*   path         the file the entry names, as the linter wrote it
\*   line         the line field at the place the linter's schema has it
\*                (messages[*].line of eslint, warnings[*].line of stylelint,
\*                Region.StartLine of dotnet, ...)
\*   line_number  the 'line_number' key of a flake8 error (None elsewhere)
\* The scripts run in the directory "/w"; "a" and "b" are files of the
\* repository.
MaxEntries == 2
MaxLine == 1

Linters == {"eslint", "flake8", "shellcheck", "dartanalyzer", "dotnet",
            "htmlhint", "stylelint"}
Paths == {"a", "./a", "/w/a", "b"}
LineOpt == {None} \cup {Some(n) : n \in 0..MaxLine}

Entries(linter) ==
    [path : Paths, line : LineOpt,
     line_number : IF linter = "flake8" THEN LineOpt ELSE {None}]

Reports(n) ==
    UNION {[linter : {l}, entries : SeqsUpTo(Entries(l), n)] : l \in Linters}

\* the filenames GitHub gives for the pull request
ChangedFileSets == SUBSET {"a", "b"}

\* os.path.normpath
NormPath(p) == IF p = "./a" THEN "a" ELSE p

\* os.path.relpath, from the directory "/w"
RelPath(p) == IF p \in {"./a", "/w/a"} THEN "a" ELSE p

\* Python's truth value of a line number that may be missing
Truthy(v) == v # None /\ v # Some(0)

\* Python's `a or b`
Or(a, b) == IF Truthy(a) THEN a ELSE b

\* linter_parsers.collect_all_issues
ParsersLine(linter, e) ==
    CASE linter = "flake8" -> Or(e.line_number, e.line)
      [] linter = "dotnet" -> IF e.line # None THEN Some(e.line[1] + 1) ELSE None
      [] OTHER -> e.line

ParsersKeeps(linter, e, changed) ==
    /\ NormPath(e.path) \in {NormPath(f) : f \in changed}
    /\ ParsersLine(linter, e) # None

\* issue_collector.collect_issues (section 6 of jibinbot_review.py is a copy
\* of it); it reads the line of a stylelint result from the result itself,
\* where the schema has none
CollectorLine(linter, e) ==
    CASE linter = "flake8" -> Or(e.line_number, e.line)
      [] linter = "stylelint" -> None
      [] OTHER -> e.line

CollectorKeeps(linter, e, changed) ==
    /\ RelPath(e.path) \in changed
    /\ Truthy(CollectorLine(linter, e))

\* which collector a script uses
UsesParsers(s) == s \in {"main", "linter_parsers"}

IssuePath(s, e) == IF UsesParsers(s) THEN NormPath(e.path) ELSE RelPath(e.path)

IssueLine(s, linter, e) ==
    IF UsesParsers(s) THEN ParsersLine(linter, e) ELSE CollectorLine(linter, e)

Keeps(s, linter, e, changed) ==
    IF UsesParsers(s) THEN ParsersKeeps(linter, e, changed)
    ELSE CollectorKeeps(linter, e, changed)

\* the entry is appended as an issue; src records the entry it came from
\* (in the code: the code and message copied from the entry)
CollectAppend ==
    /\ rpc = "collect"
    /\ entry_no <= Len(report.entries)
    /\ LET e == report.entries[entry_no] IN
       /\ Keeps(script, report.linter, e, changed_files)
       /\ issues' = Append(issues, [file |-> IssuePath(script, e),
                                    line |-> IssueLine(script, report.linter, e)[1],
                                    src |-> entry_no])
    /\ entry_no' = entry_no + 1
    /\ UNCHANGED <<script, rpc, env, changed_files, report, comments, statuses>>
    /\ UNCHANGED <<scanVars, calls, first, restVars, sideVars>>

\* the entry is of another file or has no usable line
CollectFilter ==
    /\ rpc = "collect"
    /\ entry_no <= Len(report.entries)
    /\ ~Keeps(script, report.linter, report.entries[entry_no], changed_files)
    /\ entry_no' = entry_no + 1
    /\ UNCHANGED <<script, rpc, env, changed_files, report, issues, comments, statuses>>
    /\ UNCHANGED <<scanVars, calls, first, restVars, sideVars>>

CollectReturn ==
    /\ rpc = "collect"
    /\ entry_no > Len(report.entries)
    /\ rpc' = "collected"
    /\ UNCHANGED <<script, env, changed_files, report, entry_no, issues, comments, statuses>>
    /\ UNCHANGED <<scanVars, calls, first, restVars, sideVars>>

\* no scan of a patch is going on
NoScan ==
    /\ impl = "none"
    /\ patch = << >>
    /\ line_no = 0
    /\ ctx = 0
    /\ i = 1
    /\ file_line = None
    /\ hunk = << >>
    /\ pc = "idle"
    /\ calls = 0
    /\ first = << >>
    /\ position = 0
    /\ found = None
    /\ NoAi

Collectors == {"linter_parsers", "issue_collector", "jibinbot_review"}

InitCollect ==
    /\ NoScan
    /\ script \in Collectors
    /\ rpc = "collect"
    /\ env = NoEnv
    /\ changed_files \in ChangedFileSets
    /\ report \in Reports(MaxEntries)
    /\ entry_no = 1
    /\ issues = << >>
    /\ comments = 0
    /\ statuses = << >>
    /\ NoSide

NextCollect ==
    \/ CollectAppend
    \/ CollectFilter
    \/ CollectReturn

SpecCollect == InitCollect /\ [][NextCollect]_vars

\* ---- one run of a review script -------------------------------------------
\* main.py and jibinbot_review.py, from their first line to the end of the
\* process.  env.openai_ok tells whether the OpenAI calls of the run succeed,
\* env.patch_raises whether a patch of the pull request makes
\* get_patch_context raise (an empty line inside a hunk; for the copy in
\* jibinbot_review.py also a header it cannot parse).  Reading from GitHub is
\* taken to succeed; posting a comment or setting a status may fail.
MaxRunEntries == 1

Scripts == {"main", "jibinbot_review"}
Ended == {"exit0", "exit1", "crashed"}

\* os.getenv gives None for a variable that is not set
EnvValues == {None, Some(""), Some("x")}

IsSetWhenEmpty(v) == v # None

\* Python's truth value of os.getenv's result
IsSet(v) == v # None /\ v # Some("")

\* the files of a pull request: patch tells whether f.patch is non-empty
FileNames == {"a", "b", ".GitHub/w"}
PrFiles == [filename : FileNames, patch : BOOLEAN]
PrFileSets == {S \in SUBSET PrFiles : \A f, g \in S : f.filename = g.filename => f = g}

\* str.lower
Lower(name) == IF name = ".GitHub/w" THEN ".github/w" ELSE name

\* str.startswith('.github/')
StartsWithGithub(name) == name = ".github/w"

RelevantWhateverTheDirectory(f) == f.patch

\* f.patch and not f.filename.lower().startswith('.github/')
Relevant(f) == f.patch /\ ~StartsWithGithub(Lower(f.filename))

get_changed_files_in_pr(files) == {f.filename : f \in {g \in files : Relevant(g)}}

WriteAbortsAlways(s) == TRUE

\* github_utils.post_comment and set_commit_status catch every Exception of
\* the GitHub call; jibinbot_review.py makes the calls bare
WriteAborts(s) == s # "main"

\* the record of an attempted GitHub write
Wrote(d, kind, ok) ==
    [d EXCEPT ![kind] = @ + 1, !.failed_writes = IF ok THEN @ ELSE @ + 1]

\* where the script is after an attempted GitHub write
AfterWrite(s, ok, next) == IF ok \/ ~WriteAborts(s) THEN next ELSE "crashed"

\* section 1: without both credentials the script exits with code 1
CheckEnv ==
    /\ rpc = "start"
    /\ rpc' = IF IsSet(env.OPENAI_API_KEY) /\ IsSet(env.GITHUB_TOKEN)
              THEN "load" ELSE "exit1"
    /\ UNCHANGED <<script, env, changed_files, report, entry_no, issues, comments, statuses>>
    /\ UNCHANGED <<scanVars, calls, first, restVars, sideVars>>

\* sections 2 and 3: the clients, the pull request, its changed files
DetectChanges ==
    /\ rpc = "load"
    /\ did' = [did EXCEPT !.github_reads = @ + 1]
    /\ changed_files' = get_changed_files_in_pr(pr_files)
    /\ rpc' = "detect"
    /\ UNCHANGED <<script, env, report, entry_no, issues, comments, statuses, pr_files>>
    /\ UNCHANGED <<scanVars, calls, first, restVars>>

\* section 3, no changed file with a patch outside .github/: the comment
NoChanges ==
    /\ rpc = "detect"
    /\ changed_files = {}
    /\ \E ok \in BOOLEAN :
          /\ comments' = IF ok THEN comments + 1 ELSE comments
          /\ did' = Wrote(did, "comment_attempts", ok)
          /\ rpc' = AfterWrite(script, ok, "nochanges_status")
    /\ UNCHANGED <<script, env, changed_files, report, entry_no, issues, statuses, pr_files>>
    /\ UNCHANGED <<scanVars, calls, first, restVars>>

\* then the status "success" and exit(0)
NoChangesStatus ==
    /\ rpc = "nochanges_status"
    /\ \E ok \in BOOLEAN :
          /\ statuses' = IF ok THEN Append(statuses, "success") ELSE statuses
          /\ did' = Wrote(did, "status_attempts", ok)
          /\ rpc' = AfterWrite(script, ok, "exit0")
    /\ UNCHANGED <<script, env, changed_files, report, entry_no, issues, comments, pr_files>>
    /\ UNCHANGED <<scanVars, calls, first, restVars>>

\* section 4, some changed file: read the report files and start collecting
LoadReports ==
    /\ rpc = "detect"
    /\ changed_files # {}
    /\ report' \in Reports(MaxRunEntries)
    /\ did' = [did EXCEPT !.reports_loaded = TRUE]
    /\ rpc' = "collect"
    /\ UNCHANGED <<script, env, changed_files, entry_no, issues, comments, statuses, pr_files>>
    /\ UNCHANGED <<scanVars, calls, first, restVars>>

\* the rating and the jokes: ai_services catches every exception of an OpenAI
\* request (three of them in main.py), jibinbot_review.py makes its two
\* requests without a try and dies at the first that fails
GenerateAI ==
    /\ rpc = "collected"
    /\ rpc' = IF script = "main" \/ env.openai_ok THEN "build" ELSE "crashed"
    /\ did' = [did EXCEPT !.openai_requests =
                  IF script = "main" THEN @ + 3
                  ELSE IF env.openai_ok THEN @ + 2 ELSE @ + 1]
    /\ UNCHANGED <<script, env, changed_files, report, entry_no, issues, comments, statuses, pr_files>>
    /\ UNCHANGED <<scanVars, calls, first, restVars>>

\* formatters.format_change_statistics evaluates Path(f).name for each of the
\* first five changed files, and formatters.py imports only re: NameError
\* unless the list is empty
FormatChangeStatisticsRaises(files) == files # {}

\* the order of the paths "a" and "b" as Python compares strings
PathRank(f) == IF f = "a" THEN 1 ELSE 2

\* issue x is handled before issue y: sorted(file_groups.items()) goes by
\* path, sorted(file_issues, key=line) by line, and both keep the order of
\* collection among equals
Precedes(iss, x, y) ==
    \/ PathRank(iss[x].file) < PathRank(iss[y].file)
    \/ /\ iss[x].file = iss[y].file
       /\ \/ iss[x].line < iss[y].line
          \/ iss[x].line = iss[y].line /\ x < y

\* the issues in the order in which the breakdown handles them
OrderedIssues(iss) ==
    [r \in 1..Len(iss) |->
        iss[CHOOSE x \in 1..Len(iss) :
                Cardinality({y \in 1..Len(iss) : Precedes(iss, y, x)}) = r - 1]]

\* building the comment up to the breakdown; main.py formats the change
\* statistics on the way
BuildMarkdown ==
    /\ rpc = "build"
    /\ rpc' = IF script = "main" /\ FormatChangeStatisticsRaises(changed_files)
              THEN "crashed"
              ELSE "breakdown"
    /\ UNCHANGED <<script, env, changed_files, report, entry_no, issues, comments, statuses>>
    /\ UNCHANGED <<scanVars, calls, first, restVars, sideVars>>

\* one issue of the breakdown: get_patch_context, ai_suggest_fix (caught in
\* ai_services, bare in jibinbot_review.py), the table row
BreakdownRow ==
    /\ rpc = "breakdown"
    /\ Len(did.rows) < Len(issues)
    /\ LET it == OrderedIssues(issues)[Len(did.rows) + 1] IN
       IF env.patch_raises
       THEN /\ did' = [did EXCEPT !.patch_context_calls = @ + 1]
            /\ rpc' = "crashed"
       ELSE IF script = "main" \/ env.openai_ok
       THEN /\ did' = [did EXCEPT !.patch_context_calls = @ + 1,
                                  !.fix_calls = @ + 1,
                                  !.openai_requests = @ + 1,
                                  !.rows = Append(@, it)]
            /\ rpc' = rpc
       ELSE /\ did' = [did EXCEPT !.patch_context_calls = @ + 1,
                                  !.fix_calls = @ + 1,
                                  !.openai_requests = @ + 1]
            /\ rpc' = "crashed"
    /\ UNCHANGED <<script, env, changed_files, report, entry_no, issues, comments, statuses, pr_files>>
    /\ UNCHANGED <<scanVars, calls, first, restVars>>

\* the breakdown is complete; jibinbot_review.py asks for a joke when there
\* was no issue
FinishMarkdown ==
    /\ rpc = "breakdown"
    /\ Len(did.rows) = Len(issues)
    /\ did' = [did EXCEPT !.openai_requests =
                  IF script # "main" /\ issues = << >> THEN @ + 1 ELSE @]
    /\ rpc' = IF script # "main" /\ issues = << >> /\ ~env.openai_ok
              THEN "crashed" ELSE "post"
    /\ UNCHANGED <<script, env, changed_files, report, entry_no, issues, comments, statuses, pr_files>>
    /\ UNCHANGED <<scanVars, calls, first, restVars>>

PostComment ==
    /\ rpc = "post"
    /\ \E ok \in BOOLEAN :
          /\ comments' = IF ok THEN comments + 1 ELSE comments
          /\ did' = Wrote(did, "comment_attempts", ok)
          /\ rpc' = AfterWrite(script, ok, "status")
    /\ UNCHANGED <<script, env, changed_files, report, entry_no, issues, statuses, pr_files>>
    /\ UNCHANGED <<scanVars, calls, first, restVars>>

StatusAlwaysSuccess(iss) == "success"

\* 'failure' if issues else 'success'
StatusState(iss) == IF iss # << >> THEN "failure" ELSE "success"

SetStatus ==
    /\ rpc = "status"
    /\ \E ok \in BOOLEAN :
          /\ statuses' = IF ok THEN Append(statuses, StatusState(issues)) ELSE statuses
          /\ did' = Wrote(did, "status_attempts", ok)
          /\ rpc' = AfterWrite(script, ok, "exit0")
    /\ UNCHANGED <<script, env, changed_files, report, entry_no, issues, comments, pr_files>>
    /\ UNCHANGED <<scanVars, calls, first, restVars>>

Envs == [OPENAI_API_KEY : EnvValues, GITHUB_TOKEN : EnvValues,
         openai_ok : BOOLEAN, patch_raises : BOOLEAN]

InitRun ==
    /\ NoScan
    /\ script \in Scripts
    /\ rpc = "start"
    /\ env \in Envs
    /\ changed_files = {}
    /\ pr_files \in PrFileSets
    /\ report = [linter |-> "none", entries |-> << >>]
    /\ entry_no = 1
    /\ issues = << >>
    /\ comments = 0
    /\ statuses = << >>
    /\ did = NothingDone

NextRun ==
    \/ CheckEnv
    \/ DetectChanges
    \/ NoChanges
    \/ NoChangesStatus
    \/ LoadReports
    \/ CollectAppend
    \/ CollectFilter
    \/ CollectReturn
    \/ GenerateAI
    \/ BuildMarkdown
    \/ BreakdownRow
    \/ FinishMarkdown
    \/ PostComment
    \/ SetStatus

SpecRun == InitRun /\ [][NextRun]_vars

\* ---- ai_services ----------------------------------------------------------
\* The four request functions have one shape: _get_openai_client(), then the
\* chat-completion request and the reading of its answer inside a try.  A
\* request ends in one of
\*   "content"    an answer with text
\*   "api_error"  openai.APIError
\*   "error"      any other Exception (the network, an answer without text)
MaxAiCalls == 2

AiFunctions == {"ai_suggest_fix", "get_developer_rating", "get_troll_joke",
                "get_dev_humor_joke"}
Outcomes == {"content", "api_error", "error"}

\* the keys a caller passes: key is a str, main.py passes a non-empty one
Keys == {"sk", ""}

\* what the fallback strings start with
FallbackSubject(fn) ==
    CASE fn = "ai_suggest_fix" -> "AI fix suggestion"
      [] fn = "get_developer_rating" -> "AI rating"
      [] OTHER -> "AI joke"

\* what the function returns after a request that ended with `outcome`
Answer(fn, outcome) ==
    CASE outcome = "content" -> <<"content">>
      [] outcome = "api_error" -> <<FallbackSubject(fn), "failed due to an API error.">>
      [] OTHER -> <<FallbackSubject(fn), "failed due to an unexpected error.">>

CatchesApiErrorOnly(outcome) == outcome \in {"content", "api_error"}

\* except openai.APIError, then except Exception
Catches(outcome) == outcome \in {"content", "api_error", "error"}

set_openai_api_key ==
    /\ ai.at = "idle"
    /\ \E key \in Keys : openai_api_key' = Some(key)
    /\ UNCHANGED ai
    /\ UNCHANGED <<scanVars, calls, first, position, found, runVars>>

\* the function is entered: _get_openai_client raises ValueError without a key
AiEnter ==
    /\ ai.at = "idle"
    /\ ai.calls < MaxAiCalls
    /\ \E fn \in AiFunctions :
          ai' = [ai EXCEPT !.fn = fn, !.calls = @ + 1, !.result = << >>,
                           !.at = IF openai_api_key = None THEN "raised" ELSE "request"]
    /\ UNCHANGED openai_api_key
    /\ UNCHANGED <<scanVars, calls, first, position, found, runVars>>

\* the request is made and the function returns, or lets the exception out
AiRequest ==
    /\ ai.at = "request"
    /\ \E outcome \in Outcomes :
          ai' = IF Catches(outcome)
                THEN [ai EXCEPT !.requests = @ + 1, !.at = "returned",
                                !.result = Answer(ai.fn, outcome)]
                ELSE [ai EXCEPT !.requests = @ + 1, !.at = "raised"]
    /\ UNCHANGED openai_api_key
    /\ UNCHANGED <<scanVars, calls, first, position, found, runVars>>

\* the caller goes on after the call (a caller that survives a ValueError)
AiLeave ==
    /\ ai.at \in {"returned", "raised"}
    /\ ai' = [ai EXCEPT !.at = "idle"]
    /\ UNCHANGED openai_api_key
    /\ UNCHANGED <<scanVars, calls, first, position, found, runVars>>

InitAi ==
    /\ impl = "none"
    /\ patch = << >>
    /\ line_no = 0
    /\ ctx = 0
    /\ i = 1
    /\ file_line = None
    /\ hunk = << >>
    /\ pc = "idle"
    /\ calls = 0
    /\ first = << >>
    /\ position = 0
    /\ found = None
    /\ script = "none"
    /\ rpc = "idle"
    /\ env = NoEnv
    /\ changed_files = {}
    /\ report = [linter |-> "none", entries |-> << >>]
    /\ entry_no = 0
    /\ issues = << >>
    /\ comments = 0
    /\ statuses = << >>
    /\ NoSide
    /\ NoAi

NextAi ==
    \/ set_openai_api_key
    \/ AiEnter
    \/ AiRequest
    \/ AiLeave

SpecAi == InitAi /\ [][NextAi]_vars

\* ---- notions the properties are stated in -------------------------------
\* the patch position idx is one of the lines of the list being returned
InResult(idx) == \E r \in 1..Len(hunk) : hunk[r] = idx

\* the position of the header of the hunk the line at idx lies in (0: none)
HunkOf(p, idx) ==
    LET hs == {h \in 1..(idx - 1) : IsHeader(p[h])} IN
    IF hs = {} THEN 0 ELSE CHOOSE h \in hs : \A g \in hs : g <= h

\* the number of context/addition lines strictly between positions h and idx
KeptBetween(p, h, idx) ==
    Cardinality({m \in (h + 1)..(idx - 1) : p[m].k \in {"ctx", "add"}})

\* new-file line number of the context/addition line at idx
NewNo(p, idx) == p[HunkOf(p, idx)].c + KeptBetween(p, HunkOf(p, idx), idx)

\* cursor at the deletion line at idx: newStart - 1 plus the lines consumed
DelCursor(p, idx) == p[HunkOf(p, idx)].c - 1 + KeptBetween(p, HunkOf(p, idx), idx)

HunkBodyKinds == {"ctx", "add", "del", "other"}

\* one hunk: a header of one of the given forms, then body lines only
SingleHunk(p, forms) ==
    /\ Len(p) >= 1
    /\ p[1].k \in forms
    /\ \A j \in 2..Len(p) : p[j].k \in HunkBodyKinds

NoEmptyLine(p) == \A j \in 1..Len(p) : p[j].k # "empty"

\* the inclusion rule of the specification for the body line at idx
SpecRule(p, idx) ==
    /\ HunkOf(p, idx) # 0
    /\ p[HunkOf(p, idx)].k \in WellFormedForms
    /\ \/ p[idx].k \in {"ctx", "add"} /\ Window(NewNo(p, idx), line_no, ctx)
       \/ p[idx].k = "del" /\ Window(DelCursor(p, idx), line_no, ctx)

\* ---- C1 -----------------------------------------------------------------
\* C1: for a single hunk with header '@@ -a,b +c,d @@', both implementations
\* return a context or addition line if and only if its new-file line number
\* (c for the first one, +1 for each further one) is within
\* [line_no - ctx, line_no + ctx].
C1_KeptLinesByNewNo ==
    (pc = "returned" /\ SingleHunk(patch, {"full"})) =>
        \A j \in 2..Len(patch) :
            patch[j].k \in {"ctx", "add"} =>
                (InResult(j) <=> Window(NewNo(patch, j), line_no, ctx))

C1_Witness ==
    /\ pc = "returned" /\ SingleHunk(patch, {"full"})
    /\ \E j \in 2..Len(patch) : patch[j].k = "add" /\ InResult(j)
    /\ \E j \in 2..Len(patch) : patch[j].k = "ctx" /\ ~InResult(j)

\* ---- C2 -----------------------------------------------------------------
\* C2: in both implementations a deletion line is returned exactly when the
\* cursor newStart - 1 + (context/addition lines already consumed) lies in
\* [line_no - ctx, line_no + ctx].
C2_DeletionByCurrentCursor ==
    (pc = "returned" /\ SingleHunk(patch, {"full"})) =>
        \A j \in 2..Len(patch) :
            patch[j].k = "del" =>
                (InResult(j) <=> Window(DelCursor(patch, j), line_no, ctx))

\* ---- C3 -----------------------------------------------------------------
\* C3: every body line of the result is preceded in the result by the header
\* of its own hunk, with no other header between the two.
C3_BodyLineHasItsHeader ==
    pc = "returned" =>
        \A r \in 1..Len(hunk) :
            ~IsHeader(patch[hunk[r]]) =>
                \E q \in 1..(r - 1) :
                    /\ hunk[q] = HunkOf(patch, hunk[r])
                    /\ \A m \in (q + 1)..(r - 1) : ~IsHeader(patch[hunk[m]])

C3_Witness ==
    /\ pc = "returned"
    /\ \E r \in 1..Len(hunk) :
        /\ ~IsHeader(patch[hunk[r]])
        /\ \E q \in 1..(r - 1) :
            IsHeader(patch[hunk[q]]) /\ hunk[q] # HunkOf(patch, hunk[r])

\* ---- C4 -----------------------------------------------------------------
\* C4: when no body line of any hunk satisfies the inclusion rule, the
\* function returns the empty string.
C4_NoMatchReturnsEmpty ==
    (/\ pc = "returned"
     /\ NoEmptyLine(patch)
     /\ \A j \in 1..Len(patch) : ~IsHeader(patch[j]) => ~SpecRule(patch, j))
        => hunk = << >>

\* ---- C5 -----------------------------------------------------------------
\* every header is '@@ -a,b +c,d @@', the patch starts with one, and no line
\* is empty
AllHunksFull(p) ==
    /\ NoEmptyLine(p)
    /\ Len(p) >= 1 /\ IsHeader(p[1])
    /\ \A j \in 1..Len(p) : IsHeader(p[j]) => p[j].k = "full"

\* C5: with several well-formed hunks, a context/addition line of an earlier
\* hunk that satisfies the inclusion rule is still returned, with its header,
\* when a later hunk header has been scanned after it.
C5_EarlierHunkLinesKept ==
    (pc = "returned" /\ AllHunksFull(patch)) =>
        \A j \in 1..Len(patch) :
            (/\ patch[j].k \in {"ctx", "add"}
             /\ \E h \in (j + 1)..(i - 1) : IsHeader(patch[h])
             /\ Window(NewNo(patch, j), line_no, ctx))
                => InResult(j) /\ InResult(HunkOf(patch, j))

\* ---- C6 -----------------------------------------------------------------
\* the only header of the patch is '@@ garbage @@'
OnlyHunkMalformed(p) ==
    /\ NoEmptyLine(p)
    /\ \E g \in 1..Len(p) :
        /\ p[g].k = "garbage"
        /\ \A j \in 1..Len(p) : IsHeader(p[j]) => j = g

\* C6: a patch whose only hunk has a malformed header does not raise and
\* yields the empty string.
C6_MalformedOnlyHunkEmpty ==
    OnlyHunkMalformed(patch) =>
        /\ pc # "raised"
        /\ pc = "returned" => hunk = << >>

\* ---- C7 -----------------------------------------------------------------
\* a malformed hunk first, then exactly one hunk with a full header
MalformedThenFull(p) ==
    /\ NoEmptyLine(p)
    /\ Len(p) >= 2 /\ p[1].k = "garbage"
    /\ \E h \in 2..Len(p) :
        /\ p[h].k = "full"
        /\ \A j \in 2..Len(p) : IsHeader(p[j]) => j = h

\* C7: after a malformed header no body line of the malformed hunk is ever
\* returned, and the lines of the following well-formed hunk are matched
\* against that hunk's own newStart, as if the malformed hunk were absent.
C7_MalformedHunkLeaksNothing ==
    MalformedThenFull(patch) =>
        /\ pc # "raised"
        /\ pc = "returned" =>
            \A j \in 2..Len(patch) :
                /\ (~IsHeader(patch[j]) /\ HunkOf(patch, j) = 1) => ~InResult(j)
                /\ (patch[j].k \in {"ctx", "add"} /\ HunkOf(patch, j) # 1) =>
                        (InResult(j) <=> Window(NewNo(patch, j), line_no, ctx))

\* ---- C8 -----------------------------------------------------------------
\* C8: a header with a count omitted ('@@ -a +c @@', '@@ -a,b +c @@',
\* '@@ -a +c,d @@') yields newStart = c: the context/addition lines of its
\* hunk are returned exactly as for the header with both counts.
C8_OmittedCountsAccepted ==
    (pc = "returned" /\ SingleHunk(patch, {"noOld", "noNew", "noBoth"})) =>
        \A j \in 2..Len(patch) :
            patch[j].k \in {"ctx", "add"} =>
                (InResult(j) <=> Window(NewNo(patch, j), line_no, ctx))

\* ---- C9 -----------------------------------------------------------------
\* the hunks are in increasing new-file order and do not overlap
HunksOrdered(p) ==
    \A h1, h2 \in 1..Len(p) :
        (IsHeader(p[h1]) /\ IsHeader(p[h2]) /\ h1 < h2) =>
            p[h2].c >= p[h1].c + KeptBetween(p, h1, h2)

\* C9: when line_no is the newStart of a hunk and ctx = 0, the result holds
\* the context/addition line numbered newStart and the header of its hunk.
C9_NewStartIncludedAtCtx0 ==
    (pc = "returned" /\ ctx = 0 /\ AllHunksFull(patch) /\ HunksOrdered(patch)) =>
        \A j \in 1..Len(patch) :
            (/\ patch[j].k \in {"ctx", "add"}
             /\ patch[HunkOf(patch, j)].c = line_no
             /\ NewNo(patch, j) = line_no)
                => InResult(j) /\ InResult(HunkOf(patch, j))

\* ---- C10 ----------------------------------------------------------------
\* C10: for every ctx >= 0 a deletion line that immediately precedes the
\* context/addition line whose new-file number is line_no is returned.
C10_DeletionBeforeTargetKept ==
    (pc = "returned" /\ SingleHunk(patch, {"full"})) =>
        \A j \in 2..(Len(patch) - 1) :
            (/\ patch[j].k = "del"
             /\ patch[j + 1].k \in {"ctx", "add"}
             /\ NewNo(patch, j + 1) = line_no)
                => InResult(j)

\* ---- C11 ----------------------------------------------------------------
\* C11: a call with a non-positive line_no fails fast with an error: it
\* never returns a snippet.
C11_NonPositiveLineNoFails ==
    line_no <= 0 => pc # "returned"

\* ---- C12 ----------------------------------------------------------------
NoHeader(p) == \A j \in 1..Len(p) : ~IsHeader(p[j])

\* C12: a patch without any line starting with '@@ ' (the empty patch
\* included) makes the call return the empty string, without raising, for
\* every line_no and ctx.
C12_NoHunkReturnsEmpty ==
    NoHeader(patch) =>
        /\ pc # "raised"
        /\ pc = "returned" => hunk = << >>

C12_Witness ==
    /\ pc = "returned"
    /\ NoHeader(patch)
    /\ \E j \in 1..Len(patch) : patch[j].k = "add"
    /\ \E j \in 1..Len(patch) : patch[j].k = "empty"

\* ---- C13 ----------------------------------------------------------------
\* C13: the cursor is newStart - 1 right after a header, grows by exactly 1
\* on each context or addition line and is left alone by each deletion line.
C13_CursorDiscipline ==
    [][(pc = "loop" /\ i <= Len(patch) /\ pc' # "raised") =>
        /\ (IsHeader(patch[i]) /\ file_line' # None) =>
                file_line' = Some(patch[i].c - 1)
        /\ (patch[i].k \in {"ctx", "add"} /\ file_line # None) =>
                file_line' = Some(file_line[1] + 1)
        /\ (patch[i].k = "del" /\ file_line # None) =>
                file_line' = file_line]_vars

\* ---- C14 ----------------------------------------------------------------
\* the call that has just ended had the arguments of the first call
SameAsFirst ==
    /\ first # << >>
    /\ pc \in {"returned", "raised"}
    /\ patch = first[1].patch
    /\ line_no = first[1].line_no

IsBodyLine(p, j) == ~IsHeader(p[j]) /\ HunkOf(p, j) # 0

\* the 0-based rank of the body line at j among all body lines of the patch
BodyRank(p, j) == Cardinality({m \in 1..(j - 1) : IsBodyLine(p, m)})

\* the context/addition line at j carries the new-file line number n
Carries(p, j, n) ==
    /\ p[j].k \in {"ctx", "add"}
    /\ HunkOf(p, j) # 0
    /\ p[HunkOf(p, j)].k \in WellFormedForms
    /\ NewNo(p, j) = n

\* C15: for a valid patch and a target inside a hunk's new-file range,
\* resolvePosition returns p such that the p-th body line of the patch
\* (0-based, all kinds, all hunks, headers excluded) is the context/addition
\* line whose new-file line number is the target.
C15_PositionIsTargetLine ==
    (/\ impl = "resolver" /\ pc = "returned"
     /\ AllHunksFull(patch) /\ HunksOrdered(patch)
     /\ \E j \in 1..Len(patch) : Carries(patch, j, line_no))
        =>
        /\ found # None
        /\ \E j \in 1..Len(patch) :
            /\ Carries(patch, j, line_no)
            /\ BodyRank(patch, j) = found[1]

C15_Witness ==
    /\ impl = "resolver" /\ pc = "returned"
    /\ AllHunksFull(patch) /\ HunksOrdered(patch)
    /\ found = Some(1)
    /\ \E j \in 1..Len(patch) : patch[j].k = "del" /\ j < i
    /\ \E h \in 2..Len(patch) : IsHeader(patch[h]) /\ h < i

\* ---- C16 ----------------------------------------------------------------
\* C16: for a target no hunk covers (the empty patch included)
\* resolvePosition returns "not found"; a deletion line never produces a
\* match although it advances the position counter.
C16_UncoveredNotFound ==
    [][impl = "resolver" =>
        /\ (pc' = "returned" /\ ~\E j \in 1..Len(patch) : Carries(patch, j, line_no))
                => found' = None
        /\ (pc = "loop" /\ i <= Len(patch) /\ patch[i].k = "del" /\ file_line # None)
                => (found' = None /\ pc' = "loop" /\ position' = position + 1)]_vars

C16_Witness ==
    /\ impl = "resolver" /\ pc = "returned"
    /\ found = None
    /\ position >= 2
    /\ \E j \in 1..Len(patch) : patch[j].k = "del" /\ IsBodyLine(patch, j)
    /\ \E j \in 1..Len(patch) : patch[j].k = "add" /\ IsBodyLine(patch, j)
\* ---- C17 ----------------------------------------------------------------
\* C17: a run of main.py with both credentials set and at least one changed
\* file ends having posted exactly one review comment and set exactly one
\* commit status, whatever the report holds and whether or not OpenAI fails
\* (no write to GitHub having failed).
C17_RunPostsCommentThenStatus ==
    (/\ script = "main"
     /\ IsSet(env.OPENAI_API_KEY) /\ IsSet(env.GITHUB_TOKEN)
     /\ changed_files # {}
     /\ did.failed_writes = 0
     /\ rpc \in Ended)
    => comments = 1 /\ Len(statuses) = 1

\* ---- C18 ----------------------------------------------------------------
\* C18: a commit status the review script has set is 'failure' if and only if
\* at least one issue was collected for the changed files, and 'success'
\* otherwise.
C18_FailureIffIssuesCollected ==
    \A j \in 1..Len(statuses) :
        /\ statuses[j] \in {"failure", "success"}
        /\ statuses[j] = "failure" <=> issues # << >>

\* a run that collected an issue has set its final status
C18_Witness ==
    /\ script \in Scripts
    /\ rpc = "exit0"
    /\ issues # << >>
    /\ statuses = <<"failure">>

\* ---- C19 ----------------------------------------------------------------
\* the entry names a changed file and carries a line number
Qualifies(e, changed) ==
    /\ NormPath(e.path) \in {NormPath(f) : f \in changed}
    /\ (e.line # None \/ e.line_number # None)

\* C19: collect_all_issues returns exactly one issue for each report entry
\* whose normalized path is among the normalized changed files and whose line
\* number is present, and nothing else; every issue is of a changed file.
C19_IssuesAreChangedFileEntries ==
    (script = "linter_parsers" /\ rpc = "collected") =>
        LET q == {n \in 1..Len(report.entries) :
                     Qualifies(report.entries[n], changed_files)} IN
        /\ \A j \in 1..Len(issues) :
               issues[j].file \in {NormPath(f) : f \in changed_files}
        /\ {issues[j].src : j \in 1..Len(issues)} = q
        /\ Len(issues) = Cardinality(q)

\* ---- C20 ----------------------------------------------------------------
\* the entry names a changed file, however a collector reads its path
OnChangedFile(e, changed) ==
    NormPath(e.path) \in changed /\ RelPath(e.path) \in changed

\* C20: for a .NET Format diagnostic on a changed file with Region.StartLine
\* n >= 0, each of the three collectors emits exactly one issue, and its line
\* is n + 1.
C20_DotnetLineIsOneBased ==
    (rpc = "collected" /\ report.linter = "dotnet") =>
        \A n \in 1..Len(report.entries) :
            LET e == report.entries[n]
                from == {j \in 1..Len(issues) : issues[j].src = n} IN
            (OnChangedFile(e, changed_files) /\ e.line # None) =>
                /\ Cardinality(from) = 1
                /\ \A j \in from : issues[j].line = e.line[1] + 1

\* ---- C21 ----------------------------------------------------------------
\* C21: with the key set, a request function never raises, and its result
\* after a failed request is the fallback string; without the key it raises
\* (ValueError) and has made no request.  Stated on steps: entering raises
\* exactly when the key is None and makes no request; a request never raises.
C21_RequestFunctionsNeverRaise ==
    [][/\ (ai.at = "idle" /\ ai'.at # "idle" /\ openai_api_key = None)
             => (ai'.at = "raised" /\ ai'.requests = ai.requests)
       /\ (ai.at = "idle" /\ ai'.at # "idle" /\ openai_api_key # None)
             => ai'.at = "request"
       /\ (ai.at = "request" /\ ai'.at # "request")
             => /\ ai'.at = "returned"
                /\ ai'.result \in {Answer(ai.fn, o) : o \in Outcomes}]_vars

\* a request that failed with something other than an APIError was answered
\* with the fallback string
C21_Witness ==
    /\ openai_api_key # None
    /\ ai.at = "returned"
    /\ ai.result = <<"AI rating", "failed due to an unexpected error.">>

\* ---- C22 ----------------------------------------------------------------
\* no file of the pull request has a patch and lies outside .github/, in
\* whatever case the directory is written
NoRelevantFile == ~ \E f \in pr_files : f.patch /\ f.filename \in {"a", "b"}

BothCredentials == IsSet(env.OPENAI_API_KEY) /\ IsSet(env.GITHUB_TOKEN)

\* C22: a run on a pull request without a relevant changed file never loads
\* a linter report and never makes an OpenAI request, and (its writes to
\* GitHub succeeding) ends with exit code 0 having posted one comment and set
\* the one status 'success'.
C22_NoChangesEndsEarly ==
    (NoRelevantFile /\ BothCredentials) =>
        /\ ~did.reports_loaded
        /\ did.openai_requests = 0
        /\ (rpc \in Ended /\ did.failed_writes = 0) =>
              /\ rpc = "exit0"
              /\ comments = 1
              /\ statuses = <<"success">>

\* the only file with a patch lies in .GitHub/, and the run has ended
C22_Witness ==
    /\ NoRelevantFile
    /\ \E f \in pr_files : f.patch
    /\ rpc = "exit0"
    /\ comments = 1
    /\ statuses = <<"success">>

\* ---- C23 ----------------------------------------------------------------
\* C23: with OPENAI_API_KEY or GITHUB_TOKEN unset or empty the script goes
\* from its start to exit code 1 and does nothing else: no GitHub call, no
\* OpenAI request, no comment, no status.
C23_MissingCredentialExits ==
    (script \in Scripts /\ \E v \in {env.OPENAI_API_KEY, env.GITHUB_TOKEN} :
                              v = None \/ v = Some("")) =>
        /\ rpc \in {"start", "exit1"}
        /\ did = NothingDone
        /\ comments = 0
        /\ statuses = << >>

\* a run with an empty key has exited
C23_Witness ==
    /\ script \in Scripts
    /\ env.OPENAI_API_KEY = Some("")
    /\ env.GITHUB_TOKEN = Some("x")
    /\ rpc = "exit1"

\* ---- C24 ----------------------------------------------------------------
\* C24: in main.py a failed write to GitHub does not end the run: after a
\* failed comment the script is at its status call, after a failed status it
\* exits normally, and a run that exits normally has attempted its status.
C24_WriteFailureDoesNotAbort ==
    [][script = "main" =>
         /\ did'.failed_writes > did.failed_writes => rpc' # "crashed"
         /\ did'.comment_attempts > did.comment_attempts
               => rpc' \in {"nochanges_status", "status"}
         /\ did'.status_attempts > did.status_attempts => rpc' = "exit0"
         /\ rpc' = "exit0" => did'.status_attempts = 1]_vars

\* the comment could not be posted, the status was set all the same
C24_Witness ==
    /\ script = "main"
    /\ rpc = "exit0"
    /\ did.comment_attempts = 1
    /\ comments = 0
    /\ statuses = <<"success">>

\* ---- C25 ----------------------------------------------------------------
\* the scan ended at position i with lines of the patch left
StoppedEarly == pc = "returned" /\ i <= Len(patch)

\* C25: when the scan stops before the end of the patch, the cursor exceeds
\* line_no + ctx, the line it stopped at is not a deletion, and (the hunks
\* having increasing new-file starts) no body line after it satisfies the
\* inclusion rule.
C25_EarlyStopDropsNothing ==
    StoppedEarly =>
        /\ file_line # None
        /\ file_line[1] > line_no + ctx
        /\ patch[i].k # "del"
        /\ (AllHunksFull(patch) /\ HunksOrdered(patch)) =>
              \A j \in (i + 1)..Len(patch) :
                  ~IsHeader(patch[j]) => ~SpecRule(patch, j)

\* ---- C26 ----------------------------------------------------------------
\* C26: a run that collected issues and could go on (credentials set, OpenAI
\* answering, no patch that makes get_patch_context raise, no failed write)
\* ends with one table row per collected issue, in ascending path order and
\* within a path in ascending line order, after exactly one
\* get_patch_context call and one ai_suggest_fix call per issue.
C26_OneRowPerIssueInOrder ==
    (/\ script \in Scripts
     /\ rpc \in Ended
     /\ issues # << >>
     /\ env.openai_ok /\ ~env.patch_raises
     /\ did.failed_writes = 0) =>
        /\ Len(did.rows) = Len(issues)
        /\ did.patch_context_calls = Len(issues)
        /\ did.fix_calls = Len(issues)
        /\ \A x \in 1..Len(issues) : \E r \in 1..Len(did.rows) : did.rows[r] = issues[x]
        /\ \A r \in 1..(Len(did.rows) - 1) :
              \/ PathRank(did.rows[r].file) < PathRank(did.rows[r + 1].file)
              \/ /\ did.rows[r].file = did.rows[r + 1].file
                 /\ did.rows[r].line <= did.rows[r + 1].line

\* ---- C27 ----------------------------------------------------------------
\* C27: the lines returned are lines of the patch, each at most once and in
\* the order of the patch, and none of them lies before the first hunk
\* header.
C27_ResultIsSubsequence ==
    pc = "returned" =>
        /\ \A r \in 1..Len(hunk) : hunk[r] \in 1..Len(patch)
        /\ \A r, t \in 1..Len(hunk) : r < t => hunk[r] < hunk[t]
        /\ \A r \in 1..Len(hunk) : \E h \in 1..hunk[r] : IsHeader(patch[h])

\* a result of a header and a later line, with a line left out between them
\* and a line before the header
C27_Witness ==
    /\ pc = "returned"
    /\ Len(patch) >= 4
    /\ ~IsHeader(patch[1])
    /\ Len(hunk) >= 2
    /\ \E r \in 1..(Len(hunk) - 1) : hunk[r + 1] > hunk[r] + 1

\* ---- C28 ----------------------------------------------------------------
AllHeadersWellFormed(p) ==
    \A j \in 1..Len(p) : IsHeader(p[j]) => p[j].k \in WellFormedForms

\* C28: on a patch whose hunk headers are all well formed the call does not
\* raise, whatever its body lines are; a scan step over an empty line or a
\* line with another marker leaves the cursor where it was.
C28_BodyLinesNeverRaise ==
    [][AllHeadersWellFormed(patch) =>
         /\ pc' # "raised"
         /\ (pc = "loop" /\ i <= Len(patch) /\ patch[i].k \in {"other", "empty"})
               => (file_line' = file_line /\ hunk' = hunk)]_vars

====
